---- MODULE Spec2Model ----
(***************************************************************************)
(* The evaluation stack of the Nickel abstract machine (src/src/stack.rs): *)
(* a Vec<Marker> with typed pushes, conditional pops, a counting helper    *)
(* and the bulk discard of the top run of Eq markers.                      *)
(*                                                                         *)
(* Every marker carries a ghost field id, the rank of the push that        *)
(* created it, so that "the most recently pushed frame" is a statement     *)
(* about identities and not about positions.                               *)
(***************************************************************************)
EXTENDS Integers, Sequences, FiniteSets, TLC

VARIABLES
    stack,      \* Stack.0 : Vec<Marker>, bottom first
    nextId,     \* ghost: the id the next pushed marker gets
    pre,        \* ghost: the stack when the last call started
    lastOp,     \* ghost: the name of the last call
    lastArgs,   \* ghost: the arguments of the last call
    ret,        \* ghost: what the last call returned
    gone,       \* ghost: ids of the markers the last call removed, top first
    panicked,   \* the last call ran into panic!()
    rc,         \* per memoization cell: number of Rc (strong) owners outside the stack
    freed,      \* per memoization cell: its value has been dropped
    tracing,    \* ghost: calls are appended to log
    base,       \* ghost: the stack a traced run started from
    log,        \* ghost: the calls of a traced run, oldest first
    pc,         \* the statement a call has reached; "idle" between calls
    tmp         \* the local value of the call under way

vars == <<stack, nextId, pre, lastOp, lastArgs, ret, gone, panicked,
          rc, freed, tracing, base, log, pc, tmp>>

----------------------------------------------------------------------------
(* Bounds of the model *)

MaxPushes == 3      \* markers pushed in one untraced behaviour
MaxEqs == 3         \* pairs handed to one push_eqs call
MaxBase == 1        \* length of the stack a traced run starts from
MaxBatchLog == 4    \* calls of one traced run of equality batches
MaxLog == 6         \* calls of one traced run
MaxOwners == 2      \* strong owners of one cell outside the stack

----------------------------------------------------------------------------
(* Option<T>, (), and the payload types *)

None == <<>>
Some(x) == <<x>>
Unit == <<>>

\* Closures are "A" and "B", an Option<RawSpan> is None or Some("sp")

\* Weak<RefCell<Closure>> handles, named by the cell they point to
Cells == {"c1", "c2"}
\* arguments of push_arg
ArgInputs == {<<"A", None>>, <<"B", Some("sp")>>}
\* arguments of push_op_cont: (OperationCont, callStack size, span)
ContInputs == {<<"IsNum", 3, None>>, <<"IsNum", 4, Some("sp")>>}
\* items of the iterator handed to push_eqs
EqInputs == {<<"A", "B">>, <<"B", "A">>}

RECURSIVE SeqsUpTo(_, _)
SeqsUpTo(S, n) ==
    IF n = 0 THEN {<<>>}
    ELSE LET shorter == SeqsUpTo(S, n - 1)
         IN shorter \cup {Append(q, x) : q \in {t \in shorter : Len(t) = n - 1}, x \in S}

EqBatches == SeqsUpTo(EqInputs, MaxEqs)

----------------------------------------------------------------------------
(* enum Marker *)

Marker_Eq(c1, c2, id) == [tag |-> "Eq", c1 |-> c1, c2 |-> c2, id |-> id]
Marker_Arg(arg, pos, id) == [tag |-> "Arg", arg |-> arg, pos |-> pos, id |-> id]
Marker_Thunk(thunk, id) == [tag |-> "Thunk", thunk |-> thunk, id |-> id]
Marker_Cont(cont, len, pos, id) ==
    [tag |-> "Cont", cont |-> cont, len |-> len, pos |-> pos, id |-> id]

is_arg(m) == CASE m.tag = "Arg" -> TRUE [] OTHER -> FALSE
is_thunk(m) == CASE m.tag = "Thunk" -> TRUE [] OTHER -> FALSE
\* mutant: the match has an arm too many
is_cont_or_thunk(m) == CASE m.tag = "Cont" -> TRUE [] m.tag = "Thunk" -> TRUE [] OTHER -> FALSE
is_cont(m) == CASE m.tag = "Cont" -> TRUE [] OTHER -> FALSE
is_eq(m) == CASE m.tag = "Eq" -> TRUE [] OTHER -> FALSE

----------------------------------------------------------------------------
(* Vec<Marker> as the stack uses it *)

Vec_new == <<>>
Vec_push(v, m) == Append(v, m)
\* mutant: the vector gives up its oldest element
Vec_pop_front(v) ==
    IF Len(v) = 0 THEN [vec |-> v, out |-> None]
    ELSE [vec |-> SubSeq(v, 2, Len(v)), out |-> Some(v[1])]
Vec_pop(v) ==
    IF Len(v) = 0 THEN [vec |-> v, out |-> None]
    ELSE [vec |-> SubSeq(v, 1, Len(v) - 1), out |-> Some(v[Len(v)])]
Vec_last(v) == IF Len(v) = 0 THEN None ELSE Some(v[Len(v)])
\* mutant: the new elements go in front of the old ones
Vec_extend_front(v, items) == items \o v
Vec_extend(v, items) == v \o items

\* what a call leaves behind: the vector, the returned value, whether it
\* panicked, and (ghost) the ids of the markers it dropped or handed out
Result(v, r, ids) == [stack |-> v, ret |-> r, panic |-> FALSE, gone |-> ids]
Panic(v, ids) == [stack |-> v, ret |-> None, panic |-> TRUE, gone |-> ids]

----------------------------------------------------------------------------
(* impl Stack *)

Stack_new == Vec_new

\* A predicate handed to count: one of Marker's methods, or any other
\* Fn(&Marker) -> bool, given by the set of markers (sans id) it accepts
Shape(m) == [f \in (DOMAIN m) \ {"id"} |-> m[f]]
Pred_call(pred, m) ==
    CASE pred.fn = "is_arg" -> is_arg(m)
      [] pred.fn = "is_thunk" -> is_thunk(m)
      [] pred.fn = "is_cont" -> is_cont(m)
      [] pred.fn = "is_eq" -> is_eq(m)
      [] OTHER -> Shape(m) \in pred.accepts

\* mutant: the loop walks self.0.iter(), from the bottom
count_from_bottom(self, pred) ==
    LET RECURSIVE loop(_, _)
        loop(i, n) ==
            IF i > Len(self) THEN n
            ELSE IF Pred_call(pred, self[i]) THEN loop(i + 1, n + 1)
            ELSE n
    IN loop(1, 0)

\* mutant: the loop has no break
count_no_break(self, pred) ==
    LET RECURSIVE loop(_, _)
        loop(i, n) ==
            IF i = 0 THEN n
            ELSE IF Pred_call(pred, self[i]) THEN loop(i - 1, n + 1)
            ELSE loop(i - 1, n)
    IN loop(Len(self), 0)

\* fn count<P>(&self, pred: P) -> usize : the loop over self.0.iter().rev()
count(self, pred) ==
    LET RECURSIVE loop(_, _)
        loop(i, n) ==
            IF i = 0 THEN n
            ELSE IF Pred_call(pred, self[i]) THEN loop(i - 1, n + 1)
            ELSE n
    IN loop(Len(self), 0)

\* mutant: the number of markers, whatever their variant
count_args_len(self) == Len(self)
count_args(self) == count(self, [fn |-> "is_arg"])

\* #[cfg(test)] helpers
count_thunks(self) == count(self, [fn |-> "is_thunk"])
count_conts(self) == count(self, [fn |-> "is_cont"])

\* mutant: Vec::insert(0, ..) where Vec::push stands
push_arg_front(self, arg, pos, id) ==
    [stack |-> <<Marker_Arg(arg, pos, id)>> \o self, ret |-> Unit, panic |-> FALSE, gone |-> <<>>]
push_arg(self, arg, pos, id) ==
    Result(Vec_push(self, Marker_Arg(arg, pos, id)), Unit, <<>>)

push_thunk(self, thunk, id) ==
    Result(Vec_push(self, Marker_Thunk(thunk, id)), Unit, <<>>)

\* mutant: the saved callStack size is off by one
push_op_cont_depth(self, cont, len, pos, id) ==
    [stack |-> Vec_push(self, Marker_Cont(cont, len + 1, pos, id)), ret |-> Unit,
     panic |-> FALSE, gone |-> <<>>]
push_op_cont(self, cont, len, pos, id) ==
    Result(Vec_push(self, Marker_Cont(cont, len, pos, id)), Unit, <<>>)

\* mutant: the iterator is walked backwards
push_eqs_rev(self, it, id) ==
    [stack |-> self \o [i \in 1..Len(it) |->
                   Marker_Eq(it[Len(it) + 1 - i][1], it[Len(it) + 1 - i][2], id + i - 1)],
     ret |-> Unit, panic |-> FALSE, gone |-> <<>>]
\* self.0.extend(it.map(|(t1, t2)| Marker::Eq(t1, t2))); the i-th item gets id + i - 1
push_eqs(self, it, id) ==
    Result(Vec_extend(self, [i \in 1..Len(it) |-> Marker_Eq(it[i][1], it[i][2], id + i - 1)]),
           Unit, <<>>)

\* mutant: hands out the top argument and leaves it on the stack
pop_arg_peek(self) ==
    LET l == Vec_last(self)
    IN  IF l # None /\ l[1].tag = "Arg"
            THEN Result(self, Some(<<l[1].arg, l[1].pos>>), <<l[1].id>>)
        ELSE Result(self, None, <<>>)

pop_arg(self) ==
    LET p == Vec_pop(self)
    IN  IF p.out # None /\ p.out[1].tag = "Arg"
            THEN Result(p.vec, Some(<<p.out[1].arg, p.out[1].pos>>), <<p.out[1].id>>)
        ELSE IF p.out # None
            THEN Result(Vec_push(p.vec, p.out[1]), None, <<>>)
        ELSE Result(p.vec, None, <<>>)

\* mutant: the mismatching marker is not pushed back
pop_thunk_drop(self) ==
    LET p == Vec_pop(self)
    IN  IF p.out # None /\ p.out[1].tag = "Thunk"
            THEN [stack |-> p.vec, ret |-> Some(p.out[1].thunk), panic |-> FALSE,
                  gone |-> <<p.out[1].id>>]
        ELSE [stack |-> p.vec, ret |-> None, panic |-> FALSE, gone |-> <<>>]
pop_thunk(self) ==
    LET p == Vec_pop(self)
    IN  IF p.out # None /\ p.out[1].tag = "Thunk"
            THEN Result(p.vec, Some(p.out[1].thunk), <<p.out[1].id>>)
        ELSE IF p.out # None
            THEN Result(Vec_push(p.vec, p.out[1]), None, <<>>)
        ELSE Result(p.vec, None, <<>>)

pop_op_cont(self) ==
    LET p == Vec_pop(self)
    IN  IF p.out # None /\ p.out[1].tag = "Cont"
            THEN Result(p.vec, Some(<<p.out[1].cont, p.out[1].len, p.out[1].pos>>),
                        <<p.out[1].id>>)
        ELSE IF p.out # None
            THEN Result(Vec_push(p.vec, p.out[1]), None, <<>>)
        ELSE Result(p.vec, None, <<>>)

\* mutant: the peek only asks whether there is a top marker
top_is_some(self) == Vec_last(self) # None
\* self.0.last().map(Marker::is_eq).unwrap_or(false)
top_is_eq(self) ==
    LET l == Vec_last(self)
    IN  IF l = None THEN FALSE ELSE is_eq(l[1])

\* mutant: pop first and look afterwards, without pushing a mismatch back
pop_eq_unchecked(self) ==
    LET p == Vec_pop(self)
    IN  IF p.out # None /\ p.out[1].tag = "Eq"
            THEN [stack |-> p.vec, ret |-> Some(<<p.out[1].c1, p.out[1].c2>>),
                  panic |-> FALSE, gone |-> <<p.out[1].id>>]
        ELSE [stack |-> p.vec, ret |-> None, panic |-> FALSE, gone |-> <<>>]
pop_eq(self) ==
    IF top_is_eq(self)
        THEN LET p == Vec_pop(self)
             IN  IF p.out # None /\ p.out[1].tag = "Eq"
                     THEN Result(p.vec, Some(<<p.out[1].c1, p.out[1].c2>>), <<p.out[1].id>>)
                 ELSE Panic(p.vec, IF p.out = None THEN <<>> ELSE <<p.out[1].id>>)
    ELSE Result(self, None, <<>>)

\* mutant: the test its doc comment names ("Check if the top element is an argument")
is_top_thunk_arg(self) ==
    LET l == Vec_last(self)
    IN  IF l = None THEN FALSE ELSE is_arg(l[1])
is_top_thunk(self) ==
    LET l == Vec_last(self)
    IN  IF l = None THEN FALSE ELSE is_thunk(l[1])

is_top_cont(self) ==
    LET l == Vec_last(self)
    IN  IF l = None THEN FALSE ELSE is_cont(l[1])

\* mutant: an if where the while stands
clear_eqs_once(self) ==
    LET r == pop_eq(self)
    IN  [r EXCEPT !.ret = Unit]
\* mutant: while self.0.pop().is_some() {}
RECURSIVE clear_eqs_all(_)
clear_eqs_all(self) ==
    LET p == Vec_pop(self)
    IN  IF p.out = None THEN Result(self, Unit, <<>>)
        ELSE LET rest == clear_eqs_all(p.vec)
             IN  [rest EXCEPT !.gone = <<p.out[1].id>> \o @]
\* while self.pop_eq().is_some() {}
RECURSIVE clear_eqs(_)
clear_eqs(self) ==
    LET r == pop_eq(self)
    IN  IF r.panic THEN r
        ELSE IF r.ret # None
            THEN LET rest == clear_eqs(r.stack)
                 IN  [rest EXCEPT !.gone = r.gone \o @]
        ELSE Result(r.stack, Unit, <<>>)

----------------------------------------------------------------------------
(* Rc<RefCell<Closure>> and Weak<RefCell<Closure>> *)

\* mutant: Marker::Thunk holds an Rc
ThunkStrong_rc(m) == IF m.tag = "Thunk" THEN 1 ELSE 0

\* the strong owners a marker adds to the cell it names: Marker::Thunk holds a Weak
ThunkStrong(m) == 0

\* Rc::strong_count of cell c: the owners outside the stack and those on it
strong_count(c, owners, self) ==
    LET RECURSIVE held(_)
        held(i) ==
            IF i = 0 THEN 0
            ELSE held(i - 1)
                 + (IF self[i].tag = "Thunk" /\ self[i].thunk = c THEN ThunkStrong(self[i]) ELSE 0)
    IN owners[c] + held(Len(self))

\* Weak::upgrade
Weak_upgrade(w, dropped) == IF dropped[w] THEN None ELSE Some(w)

----------------------------------------------------------------------------
(* The calls as steps of the machine *)

\* Untraced behaviours stop pushing after MaxPushes markers; a traced run is
\* bounded by the length of its log instead.
CanPush(n) == tracing \/ nextId + n - 1 <= MaxPushes

\* One step of the caller: r is what it leaves behind, used the number of ids it took
Record(op, args, r, used) ==
    /\ ~panicked
    /\ pc = "idle"
    /\ pre' = stack
    /\ stack' = r.stack
    /\ ret' = r.ret
    /\ gone' = r.gone
    /\ panicked' = r.panic
    /\ lastOp' = op
    /\ lastArgs' = args
    /\ nextId' = nextId + used
    /\ log' = IF tracing
                THEN Append(log, [op |-> op, args |-> args, ret |-> r.ret, post |-> r.stack])
                ELSE log
    /\ UNCHANGED <<tracing, base, pc, tmp>>

\* a call of a Stack method: the cells are out of its reach
Call(op, args, r, used) ==
    /\ Record(op, args, r, used)
    /\ UNCHANGED <<rc, freed>>

PushArg ==
    \E a \in ArgInputs :
        /\ CanPush(1)
        /\ Call("push_arg", a, push_arg(stack, a[1], a[2], nextId), 1)

PushThunk ==
    \E w \in Cells :
        /\ CanPush(1)
        /\ Call("push_thunk", w, push_thunk(stack, w, nextId), 1)

PushOpCont ==
    \E c \in ContInputs :
        /\ CanPush(1)
        /\ Call("push_op_cont", c, push_op_cont(stack, c[1], c[2], c[3], nextId), 1)

PushEqs ==
    \E it \in EqBatches :
        /\ CanPush(Len(it))
        /\ Call("push_eqs", it, push_eqs(stack, it, nextId), Len(it))

PopArg == Call("pop_arg", Unit, pop_arg(stack), 0)
PopThunk == Call("pop_thunk", Unit, pop_thunk(stack), 0)
PopOpCont == Call("pop_op_cont", Unit, pop_op_cont(stack), 0)
PopEq == Call("pop_eq", Unit, pop_eq(stack), 0)
ClearEqs == Call("clear_eqs", Unit, clear_eqs(stack), 0)

\* the &self methods: they cannot write to the vector
CountArgs == Call("count_args", Unit, Result(stack, count_args(stack), <<>>), 0)
CountThunks == Call("count_thunks", Unit, Result(stack, count_thunks(stack), <<>>), 0)
CountConts == Call("count_conts", Unit, Result(stack, count_conts(stack), <<>>), 0)
IsTopThunk == Call("is_top_thunk", Unit, Result(stack, is_top_thunk(stack), <<>>), 0)
IsTopCont == Call("is_top_cont", Unit, Result(stack, is_top_cont(stack), <<>>), 0)

\* the caller drops one of its Rc handles of cell c; the cell's value is
\* dropped with the last strong owner
RcDrop ==
    \E c \in Cells :
        /\ rc[c] > 0
        /\ rc' = [rc EXCEPT ![c] = @ - 1]
        /\ freed' = [freed EXCEPT ![c] = @ \/ strong_count(c, rc', stack) = 0]
        /\ Record("drop", c, Result(stack, Unit, <<>>), 0)

\* the caller resolves the handle the last pop_thunk gave it
WeakUpgrade ==
    /\ lastOp = "pop_thunk"
    /\ ret # None
    /\ Record("upgrade", ret[1], Result(stack, Weak_upgrade(ret[1], freed), <<>>), 0)
    /\ UNCHANGED <<rc, freed>>

----------------------------------------------------------------------------
(* Spec: every public call, in any order, from Stack::new() *)

Init ==
    /\ stack = Stack_new
    /\ nextId = 1
    /\ pre = <<>>
    /\ lastOp = "new"
    /\ lastArgs = Unit
    /\ ret = Unit
    /\ gone = <<>>
    /\ panicked = FALSE
    /\ rc = [c \in Cells |-> 1]
    /\ freed = [c \in Cells |-> FALSE]
    /\ tracing = FALSE
    /\ base = <<>>
    /\ log = <<>>
    /\ pc = "idle"
    /\ tmp = None

Next ==
    \/ PushArg
    \/ PushThunk
    \/ PushOpCont
    \/ PushEqs
    \/ PopArg
    \/ PopThunk
    \/ PopOpCont
    \/ PopEq
    \/ ClearEqs
    \/ CountArgs
    \/ CountThunks
    \/ CountConts
    \/ IsTopThunk
    \/ IsTopCont

Spec == Init /\ [][Next]_vars

----------------------------------------------------------------------------
(* Traced runs: a stack built by a few pushes, then calls of one family,   *)
(* each appended to log with the stack it left                             *)

\* the pushes of one marker
PushCalls ==
    {<<"push_arg", a>> : a \in ArgInputs} \cup {<<"push_thunk", w>> : w \in Cells}
        \cup {<<"push_op_cont", c>> : c \in ContInputs}
        \cup {<<"push_eqs", <<e>>>> : e \in EqInputs}

ApplyPush(self, call, id) ==
    CASE call[1] = "push_arg" -> push_arg(self, call[2][1], call[2][2], id).stack
      [] call[1] = "push_thunk" -> push_thunk(self, call[2], id).stack
      [] call[1] = "push_op_cont" ->
            push_op_cont(self, call[2][1], call[2][2], call[2][3], id).stack
      [] call[1] = "push_eqs" -> push_eqs(self, call[2], id).stack

RECURSIVE Replay(_)
Replay(calls) ==
    IF calls = <<>> THEN Stack_new
    ELSE ApplyPush(Replay(SubSeq(calls, 1, Len(calls) - 1)), calls[Len(calls)], Len(calls))

InitTraced ==
    /\ stack \in {Replay(calls) : calls \in SeqsUpTo(PushCalls, MaxBase)}
    /\ nextId = Len(stack) + 1
    /\ pre = stack
    /\ lastOp = "setup"
    /\ lastArgs = Unit
    /\ ret = Unit
    /\ gone = <<>>
    /\ panicked = FALSE
    /\ rc = [c \in Cells |-> 1]
    /\ freed = [c \in Cells |-> FALSE]
    /\ tracing = TRUE
    /\ base = stack
    /\ log = <<>>
    /\ pc = "idle"
    /\ tmp = None

\* pushes and pops of arguments
NextArgs ==
    /\ Len(log) < MaxLog
    /\ \/ PushArg
       \/ PopArg

SpecArgs == InitTraced /\ [][NextArgs]_vars

\* one batch of equalities, then pop_eq and clear_eqs
NextEqs ==
    /\ Len(log) < MaxLog
    /\ \/ log = <<>> /\ PushEqs
       \/ PopEq
       \/ ClearEqs

SpecEqs == InitTraced /\ [][NextEqs]_vars

\* batches of equalities pushed one on another, among arguments; the pairs
\* of a batch are all the same, its markers differ by their ids
PlainBatches == SeqsUpTo({<<"A", "B">>}, MaxEqs)

InitBatches == InitTraced /\ base = <<>>

NextBatches ==
    /\ Len(log) < MaxBatchLog
    /\ \/ PushEqs /\ lastArgs' \in PlainBatches
       \/ PushArg
       \/ PopArg
       \/ PopEq
       \/ ClearEqs

SpecBatches == InitBatches /\ [][NextBatches]_vars

----------------------------------------------------------------------------
(* SpecSteps: the conditional pops and clear_eqs, one statement at a time. *)
(* A method holds &mut self: between its statements no other call runs.    *)

\* the caller enters method op
Enter(op) ==
    /\ pc = "idle"
    /\ ~panicked
    /\ pre' = stack
    /\ lastOp' = op
    /\ lastArgs' = Unit
    /\ ret' = Unit
    /\ gone' = <<>>
    /\ UNCHANGED <<nextId, panicked, rc, freed, tracing, base, log>>

\* the method returns r to the caller, having handed out the markers ids
Leave(v, r, ids) ==
    /\ stack' = v
    /\ ret' = r
    /\ gone' = ids
    /\ pc' = "idle"
    /\ tmp' = None
    /\ UNCHANGED <<nextId, pre, lastOp, lastArgs, panicked, rc, freed, tracing, base, log>>

\* match self.0.pop() { : the scrutinee of pop_arg, pop_thunk and pop_op_cont
Take(op) ==
    /\ Enter(op)
    /\ stack' = Vec_pop(stack).vec
    /\ tmp' = Vec_pop(stack).out
    /\ pc' = op

PopArgTake == Take("pop_arg")

\* mutant: the arm Some(m) returns None without self.0.push(m)
PopArgMatch_drop ==
    /\ pc = "pop_arg"
    /\ IF tmp # None /\ is_arg(tmp[1])
           THEN Leave(stack, Some(<<tmp[1].arg, tmp[1].pos>>), <<tmp[1].id>>)
       ELSE Leave(stack, None, <<>>)
\* the arms of pop_arg
PopArgMatch ==
    /\ pc = "pop_arg"
    /\ IF tmp # None /\ is_arg(tmp[1])
           THEN Leave(stack, Some(<<tmp[1].arg, tmp[1].pos>>), <<tmp[1].id>>)
       ELSE IF tmp # None
           THEN Leave(Vec_push(stack, tmp[1]), None, <<>>)
       ELSE Leave(stack, None, <<>>)

PopThunkTake == Take("pop_thunk")

PopThunkMatch ==
    /\ pc = "pop_thunk"
    /\ IF tmp # None /\ is_thunk(tmp[1])
           THEN Leave(stack, Some(tmp[1].thunk), <<tmp[1].id>>)
       ELSE IF tmp # None
           THEN Leave(Vec_push(stack, tmp[1]), None, <<>>)
       ELSE Leave(stack, None, <<>>)

PopOpContTake == Take("pop_op_cont")

PopOpContMatch ==
    /\ pc = "pop_op_cont"
    /\ IF tmp # None /\ is_cont(tmp[1])
           THEN Leave(stack, Some(<<tmp[1].cont, tmp[1].len, tmp[1].pos>>), <<tmp[1].id>>)
       ELSE IF tmp # None
           THEN Leave(Vec_push(stack, tmp[1]), None, <<>>)
       ELSE Leave(stack, None, <<>>)

\* if self.0.last().map(Marker::is_eq).unwrap_or(false) : pop_eq called by
\* the caller, or by the loop of clear_eqs
PopEqPeek ==
    /\ \/ Enter("pop_eq") /\ pc' = "pop_eq"
       \/ /\ pc = "clear_eqs"
          /\ pc' = "clear_eqs.pop_eq"
          /\ UNCHANGED <<nextId, pre, lastOp, lastArgs, ret, gone, panicked,
                         rc, freed, tracing, base, log>>
    /\ tmp' = Some(top_is_eq(stack))
    /\ stack' = stack

\* the branches of pop_eq: match self.0.pop() under a true test, None otherwise
PopEqPop ==
    /\ pc \in {"pop_eq", "clear_eqs.pop_eq"}
    /\ pc' = IF pc = "pop_eq" THEN "idle" ELSE "clear_eqs.test"
    /\ tmp' = None
    /\ LET p == Vec_pop(stack)
       IN  IF tmp[1]
               THEN /\ stack' = p.vec
                    /\ IF p.out # None /\ is_eq(p.out[1])
                           THEN /\ ret' = Some(<<p.out[1].c1, p.out[1].c2>>)
                                /\ gone' = gone \o <<p.out[1].id>>
                                /\ panicked' = FALSE
                       ELSE /\ ret' = None
                            /\ gone' = gone
                            /\ panicked' = TRUE
           ELSE /\ stack' = stack
                /\ ret' = None
                /\ gone' = gone
                /\ panicked' = FALSE
    /\ UNCHANGED <<nextId, pre, lastOp, lastArgs, rc, freed, tracing, base, log>>

\* clear_eqs is entered: the head of its loop
ClearEqsEnter ==
    /\ Enter("clear_eqs")
    /\ pc' = "clear_eqs"
    /\ UNCHANGED <<stack, tmp>>

\* mutant: while self.pop_eq().is_none() {}
ClearEqsTest_is_none ==
    /\ pc = "clear_eqs.test"
    /\ ~panicked
    /\ pc' = IF ret = None THEN "clear_eqs" ELSE "idle"
    /\ ret' = IF ret = None THEN ret ELSE Unit
    /\ UNCHANGED <<stack, nextId, pre, lastOp, lastArgs, gone, panicked,
                   rc, freed, tracing, base, log, tmp>>
\* while self.pop_eq().is_some() {} : the test on what pop_eq returned
ClearEqsTest ==
    /\ pc = "clear_eqs.test"
    /\ ~panicked
    /\ pc' = IF ret # None THEN "clear_eqs" ELSE "idle"
    /\ ret' = IF ret # None THEN ret ELSE Unit
    /\ UNCHANGED <<stack, nextId, pre, lastOp, lastArgs, gone, panicked,
                   rc, freed, tracing, base, log, tmp>>

\* the statements that run inside a call of pop_eq or clear_eqs
FinishEqs ==
    \/ pc # "idle" /\ PopEqPeek
    \/ PopEqPop
    \/ ClearEqsTest

\* the statements that run inside a call
Finish ==
    \/ PopArgMatch
    \/ PopThunkMatch
    \/ PopOpContMatch
    \/ FinishEqs

NextSteps ==
    \/ PushArg
    \/ PushThunk
    \/ PushOpCont
    \/ PushEqs /\ lastArgs' \in PlainBatches
    \/ PopArgTake
    \/ PopThunkTake
    \/ PopOpContTake
    \/ pc = "idle" /\ PopEqPeek
    \/ ClearEqsEnter
    \/ Finish

SpecSteps == Init /\ [][NextSteps]_vars

\* pop_eq and clear_eqs, one statement at a time, on batches of equalities
\* pushed on a stack that holds markers of any variant
InitLoop ==
    /\ stack \in {Replay(calls) : calls \in SeqsUpTo(PushCalls, MaxBase)}
    /\ nextId = Len(stack) + 1
    /\ pre = stack
    /\ lastOp = "setup"
    /\ lastArgs = Unit
    /\ ret = Unit
    /\ gone = <<>>
    /\ panicked = FALSE
    /\ rc = [c \in Cells |-> 1]
    /\ freed = [c \in Cells |-> FALSE]
    /\ tracing = FALSE
    /\ base = stack
    /\ log = <<>>
    /\ pc = "idle"
    /\ tmp = None

NextLoop ==
    \/ PushEqs /\ lastArgs' \in PlainBatches
    \/ pc = "idle" /\ PopEqPeek
    \/ ClearEqsEnter
    \/ FinishEqs

SpecLoop == InitLoop /\ [][NextLoop]_vars

\* a call that has started runs to its end: the methods are synchronous
FairLoop == SpecLoop /\ WF_vars(FinishEqs)

\* thunks whose cells lose their owners while the run goes on
InitThunk ==
    /\ stack = Stack_new
    /\ nextId = 1
    /\ pre = <<>>
    /\ lastOp = "new"
    /\ lastArgs = Unit
    /\ ret = Unit
    /\ gone = <<>>
    /\ panicked = FALSE
    /\ rc \in [Cells -> 1..MaxOwners]
    /\ freed = [c \in Cells |-> FALSE]
    /\ tracing = TRUE
    /\ base = <<>>
    /\ log = <<>>
    /\ pc = "idle"
    /\ tmp = None

NextThunk ==
    /\ Len(log) < MaxLog
    /\ \/ PushThunk
       \/ PopThunk
       \/ RcDrop
       \/ WeakUpgrade

SpecThunk == InitThunk /\ [][NextThunk]_vars

\* the stack before and after the i-th traced call
StackBefore(i) == IF i = 1 THEN base ELSE log[i - 1].post
StackAfter(i) == IF i = 0 THEN base ELSE log[i].post
\* calls a .. a+n-1 of the log are all op
IsRun(a, n, op) == a + n - 1 <= Len(log) /\ \A i \in a..(a + n - 1) : log[i].op = op

----------------------------------------------------------------------------
(* Vocabulary of the properties *)

Range(s) == {s[i] : i \in 1..Len(s)}
Top(s) == s[Len(s)]
Below(s) == SubSeq(s, 1, Len(s) - 1)
IsPrefix(s, t) == Len(s) <= Len(t) /\ SubSeq(t, 1, Len(s)) = s
Without(s, ids) == SelectSeq(s, LAMBDA m : m.id \notin ids)

\* the marker of s pushed last
MostRecent(s) == CHOOSE m \in Range(s) : \A x \in Range(s) : x.id <= m.id

\* what a pop hands out for marker m
Payload(m) ==
    CASE m.tag = "Arg" -> <<m.arg, m.pos>>
      [] m.tag = "Thunk" -> m.thunk
      [] m.tag = "Cont" -> <<m.cont, m.len, m.pos>>
      [] m.tag = "Eq" -> <<m.c1, m.c2>>

\* the length of the longest suffix of s whose markers all have a tag in T
TopRun(s, T) ==
    CHOOSE k \in 0..Len(s) :
        /\ \A i \in (Len(s) - k + 1)..Len(s) : s[i].tag \in T
        /\ k = Len(s) \/ s[Len(s) - k].tag \notin T

PushOps == {"push_arg", "push_thunk", "push_op_cont", "push_eqs"}
PopOps == {"pop_arg", "pop_thunk", "pop_op_cont", "pop_eq"}
PopTag(op) ==
    CASE op = "pop_arg" -> "Arg"
      [] op = "pop_thunk" -> "Thunk"
      [] op = "pop_op_cont" -> "Cont"
      [] op = "pop_eq" -> "Eq"

----------------------------------------------------------------------------
(* C1: LIFO discipline. The markers on the stack are in push order (ids    *)
(* increase from bottom to top, none twice); a push leaves the old stack   *)
(* as a prefix and only appends markers younger than all it holds; every   *)
(* successful pop returns the payload of the marker pushed most recently   *)
(* among those on the stack and removes that marker and nothing else;      *)
(* clear_eqs removes, one after the other, the most recent remaining one.  *)
C1_Lifo ==
    /\ \A i, j \in 1..Len(stack) : i < j => stack[i].id < stack[j].id
    /\ lastOp \in PushOps =>
        /\ IsPrefix(pre, stack)
        /\ \A i \in (Len(pre) + 1)..Len(stack) : \A m \in Range(pre) : m.id < stack[i].id
    /\ (lastOp \in PopOps /\ ret # None) =>
        /\ pre # <<>>
        /\ ret = Some(Payload(MostRecent(pre)))
        /\ gone = <<MostRecent(pre).id>>
        /\ stack = Without(pre, {MostRecent(pre).id})
    /\ (lastOp \in PopOps /\ ret = None) => stack = pre
    /\ lastOp = "clear_eqs" =>
        /\ stack = Without(pre, Range(gone))
        /\ \A k \in 1..Len(gone) :
            gone[k] = MostRecent(Without(pre, {gone[j] : j \in 1..(k - 1)})).id

\* a successful pop of a marker that was not the only one, with all four variants seen
C1_Witness ==
    /\ lastOp \in PopOps
    /\ ret # None
    /\ Len(pre) = 3
    /\ {m.tag : m \in Range(pre)} \cap {"Arg", "Thunk", "Cont"} # {}
    /\ Cardinality({m.tag : m \in Range(pre)}) = 3

----------------------------------------------------------------------------
(* C3: pop_arg, pop_thunk and pop_op_cont on an empty stack or on a top    *)
(* marker of another variant return None and leave the stack as it was,    *)
(* also when a marker of the requested variant lies right beneath the top. *)
C3_MismatchUnchanged ==
    (/\ lastOp \in {"pop_arg", "pop_thunk", "pop_op_cont"}
     /\ (pre = <<>> \/ Top(pre).tag # PopTag(lastOp)))
    => (ret = None /\ stack = pre /\ gone = <<>>)

\* a mismatch with the requested variant right beneath the top
C3_Witness ==
    /\ lastOp \in {"pop_arg", "pop_thunk", "pop_op_cont"}
    /\ Len(pre) >= 2
    /\ Top(pre).tag # PopTag(lastOp)
    /\ pre[Len(pre) - 1].tag = PopTag(lastOp)
    /\ stack = pre

----------------------------------------------------------------------------
(* C5: clear_eqs removes exactly the maximal top run of Eq markers: the    *)
(* markers beneath it, Eq markers under a non-Eq marker included, stay in  *)
(* place unchanged; a pop_eq called right after it returns None.           *)
C5_ClearEqsState ==
    lastOp = "clear_eqs" =>
        LET k == TopRun(pre, {"Eq"})
        IN  /\ stack = SubSeq(pre, 1, Len(pre) - k)
            /\ Len(gone) = k
            /\ ret = Unit

C5_ClearEqs ==
    /\ []C5_ClearEqsState
    /\ [][(lastOp = "clear_eqs" /\ lastOp' = "pop_eq") => (ret' = None /\ stack' = stack)]_vars

\* an Eq run cleared above a non-Eq marker that covers another Eq marker
C5_Witness ==
    /\ lastOp = "clear_eqs"
    /\ Len(gone) >= 1
    /\ stack # <<>>
    /\ Top(stack).tag # "Eq"
    /\ \E m \in Range(stack) : m.tag = "Eq"

----------------------------------------------------------------------------
(* C6: no conditional pop panics: each returns a payload or None, and the  *)
(* panic!() of pop_eq is never reached.                                    *)
C6_NoPanic ==
    /\ ~panicked
    /\ lastOp \in PopOps =>
        \/ ret = None
        \/ pre # <<>> /\ Top(pre).tag = PopTag(lastOp) /\ ret = Some(Payload(Top(pre)))

\* pop_eq went through the branch that holds the panic!()
C6_Witness ==
    /\ lastOp = "pop_eq"
    /\ ret # None
    /\ ~panicked

----------------------------------------------------------------------------
(* C2: n push_arg calls followed by n pop_arg calls, nothing in between:   *)
(* the i-th pop returns the (value, span) of the (n+1-i)-th push, and      *)
(* after the n-th pop the stack is what it was before the first push.      *)
C2_ArgsReversed ==
    \A a \in 1..(Len(log) + 1) : \A n \in 0..Len(log) : \A m \in 0..n :
        (IsRun(a, n, "push_arg") /\ IsRun(a + n, m, "pop_arg")) =>
            /\ \A i \in 1..m : log[a + n - 1 + i].ret = Some(log[a + n - i].args)
            /\ m = n => StackAfter(a + 2 * n - 1) = StackBefore(a)

\* three pushes of two different arguments on a non-empty stack, then three pops
C2_Witness ==
    /\ Len(log) = 6
    /\ IsRun(1, 3, "push_arg")
    /\ IsRun(4, 3, "pop_arg")
    /\ log[1].args # log[2].args
    /\ base # <<>>

----------------------------------------------------------------------------
(* C4: after push_eqs([p1, ..., pn]) on a stack that is empty or whose top *)
(* is no Eq, the next n pop_eq calls return pn, ..., p1 in that order and  *)
(* the (n+1)-th returns None.                                              *)
C4_EqsReversed ==
    \A a \in 1..Len(log) :
        (/\ log[a].op = "push_eqs"
         /\ (StackBefore(a) = <<>> \/ Top(StackBefore(a)).tag # "Eq"))
        => LET ps == log[a].args
               n == Len(ps)
           IN  \A i \in 1..(n + 1) :
                   IsRun(a + 1, i, "pop_eq") =>
                       log[a + i].ret = IF i <= n THEN Some(ps[n + 1 - i]) ELSE None

\* three pairs, not all the same, pushed on a non-Eq marker, then four pop_eq
C4_Witness ==
    /\ Len(log) = 5
    /\ log[1].op = "push_eqs"
    /\ Len(log[1].args) = 3
    /\ log[1].args[1] # log[1].args[3]
    /\ IsRun(2, 4, "pop_eq")
    /\ base # <<>>
    /\ Top(base).tag # "Eq"

----------------------------------------------------------------------------
(* C8: count(pred) is the length of the longest suffix of the stack whose  *)
(* markers all satisfy pred, for every predicate: 0 on the empty stack and *)
(* when the top marker fails pred, blind to matching markers beneath a     *)
(* failing one; count_args is that count for is_arg; counting leaves the   *)
(* stack as it is. The predicates are tried on every stack count_args has  *)
(* just returned from, which is every reachable stack.                     *)
Shapes == {Shape(Top(Replay(<<c>>))) : c \in PushCalls}

Predicates ==
    {[fn |-> f] : f \in {"is_arg", "is_thunk", "is_cont", "is_eq"}}
        \cup {[fn |-> "closure", accepts |-> S] : S \in SUBSET Shapes}

LongestSuffix(s, pred) ==
    CHOOSE k \in 0..Len(s) :
        /\ \A i \in (Len(s) - k + 1)..Len(s) : Pred_call(pred, s[i])
        /\ k = Len(s) \/ ~Pred_call(pred, s[Len(s) - k])

C8_Count ==
    /\ lastOp = "count_args" =>
        \A pred \in Predicates :
            /\ count(stack, pred) = LongestSuffix(stack, pred)
            /\ (stack = <<>> \/ ~Pred_call(pred, Top(stack))) => count(stack, pred) = 0
    /\ lastOp = "count_args" => (ret = TopRun(pre, {"Arg"}) /\ stack = pre)
    /\ lastOp = "count_thunks" => (ret = TopRun(pre, {"Thunk"}) /\ stack = pre)
    /\ lastOp = "count_conts" => (ret = TopRun(pre, {"Cont"}) /\ stack = pre)

\* count_args sees one argument on top and not the one beneath the thunk
C8_Witness ==
    /\ lastOp = "count_args"
    /\ ret = 1
    /\ Len(stack) = 3
    /\ stack[1].tag = "Arg"
    /\ stack[2].tag # "Arg"

----------------------------------------------------------------------------
(* C9: pushing one non-Arg marker (push_thunk, push_op_cont, push_eqs of   *)
(* one pair) on a stack with count_args() = n makes count_args() 0 and     *)
(* leaves the markers below the new top as they were; the matching pop     *)
(* right after it succeeds and makes count_args() n again.                 *)
OneNonArgPush ==
    \/ lastOp \in {"push_thunk", "push_op_cont"}
    \/ lastOp = "push_eqs" /\ Len(lastArgs) = 1

MatchingPop(op) ==
    CASE op = "push_thunk" -> "pop_thunk"
      [] op = "push_op_cont" -> "pop_op_cont"
      [] op = "push_eqs" -> "pop_eq"

C9_PushState ==
    OneNonArgPush =>
        /\ count_args(stack) = 0
        /\ Len(stack) = Len(pre) + 1
        /\ Below(stack) = pre

C9_NonArgResets ==
    /\ []C9_PushState
    /\ [][(OneNonArgPush /\ lastOp' = "count_args") => ret' = 0]_vars
    /\ [][(OneNonArgPush /\ lastOp' = MatchingPop(lastOp)) =>
            (/\ ret' # None
             /\ stack' = pre
             /\ count_args(stack') = count_args(pre))]_vars

\* a thunk, continuation or equality pushed on two arguments
C9_Witness ==
    /\ OneNonArgPush
    /\ count_args(pre) = 2
    /\ count_args(stack) = 0

----------------------------------------------------------------------------
(* C10: consecutive pop_eq calls that start on a stack that is empty or    *)
(* whose top is no Eq all return None, and the stack stays what it was     *)
(* before the first of them.                                               *)
C10_PopEqIdempotent ==
    \A a \in 1..Len(log) : \A k \in 1..Len(log) :
        (/\ IsRun(a, k, "pop_eq")
         /\ (StackBefore(a) = <<>> \/ Top(StackBefore(a)).tag # "Eq"))
        => \A i \in a..(a + k - 1) :
               log[i].ret = None /\ StackAfter(i) = StackBefore(a)

\* three pop_eq in a row on a non-empty stack without an Eq on top
C10_Witness ==
    /\ Len(log) >= 3
    /\ IsRun(Len(log) - 2, 3, "pop_eq")
    /\ StackBefore(Len(log) - 2) # <<>>
    /\ Top(StackBefore(Len(log) - 2)).tag # "Eq"
    /\ log[Len(log)].ret = None

----------------------------------------------------------------------------
(* C7: a Thunk marker does not keep its cell alive. Once the caller has    *)
(* dropped every strong owner of a cell, the cell is freed, with markers   *)
(* naming it on the stack or not; pop_thunk on such a marker still returns *)
(* its handle, and resolving that handle yields None.                      *)
C7_ThunkWeak ==
    /\ \A c \in Cells : rc[c] = 0 => freed[c]
    /\ (lastOp = "pop_thunk" /\ pre # <<>> /\ Top(pre).tag = "Thunk") =>
        /\ ret = Some(Top(pre).thunk)
        /\ stack = Below(pre)
        /\ ~panicked
    /\ (lastOp = "upgrade" /\ rc[lastArgs] = 0) => ret = None

\* push_thunk(c), then the last owner of c dropped with the marker on the
\* stack, then pop_thunk returning the handle, then the handle resolved to None
C7_Witness ==
    /\ Len(log) >= 4
    /\ \E i \in 1..Len(log) : \E j \in (i + 1)..Len(log) :
        /\ log[i].op = "push_thunk"
        /\ log[j].op = "drop"
        /\ log[j].args = log[i].args
        /\ \E m \in Range(log[j].post) : m.tag = "Thunk" /\ m.thunk = log[i].args
        /\ log[Len(log) - 1].op = "pop_thunk"
        /\ log[Len(log) - 1].ret = Some(log[i].args)
        /\ j < Len(log) - 1
    /\ lastOp = "upgrade"
    /\ rc[lastArgs] = 0
    /\ ret = None

----------------------------------------------------------------------------
----------------------------------------------------------------------------
(* C12: a push followed at once by the matching pop is a round trip: the   *)
(* pop returns exactly what was pushed (for push_op_cont the triple with   *)
(* the saved depth as given), the stack is again the one before the push,  *)
(* and the top run of that variant grows by one on the push and shrinks by *)
(* one on the pop.                                                         *)
OnePush == lastOp \in {"push_arg", "push_thunk", "push_op_cont"}

RoundTripPop(op) ==
    CASE op = "push_arg" -> "pop_arg"
      [] op = "push_thunk" -> "pop_thunk"
      [] op = "push_op_cont" -> "pop_op_cont"

VariantCount(op, s) ==
    CASE op = "push_arg" -> count_args(s)
      [] op = "push_thunk" -> count_thunks(s)
      [] op = "push_op_cont" -> count_conts(s)

C12_PushState ==
    OnePush => VariantCount(lastOp, stack) = VariantCount(lastOp, pre) + 1

C12_RoundTrip ==
    /\ []C12_PushState
    /\ [][(OnePush /\ lastOp' = RoundTripPop(lastOp)) =>
            (/\ ret' = Some(lastArgs)
             /\ stack' = pre
             /\ VariantCount(lastOp, stack') = VariantCount(lastOp, stack) - 1)]_vars

\* the continuation with depth 4, pushed last on one with depth 3, comes back
C12_Witness ==
    /\ lastOp = "pop_op_cont"
    /\ ret = Some(<<"IsNum", 4, Some("sp")>>)
    /\ gone = <<nextId - 1>>
    /\ Len(stack) >= 1
    /\ Top(stack).tag = "Cont"
    /\ Top(stack).len = 3
    /\ count_conts(stack) = 1
    /\ count_conts(pre) = 2

----------------------------------------------------------------------------
(* C13: with every pushed marker given its own identity (the rank of its   *)
(* push), no marker occurs twice on the stack, the markers a call removes  *)
(* are exactly those it reports, each once, a marker that has left the     *)
(* stack never comes back, and a marker that stays keeps its place and its *)
(* payload. Identities on the stack are below nextId, identities entering  *)
(* it are at least nextId, and nextId never decreases: hence an identity   *)
(* that left cannot enter again, and is removed at most once.              *)
Ids(s) == {s[i].id : i \in 1..Len(s)}

C13_Distinct ==
    /\ Cardinality(Ids(stack)) = Len(stack)
    /\ \A i \in Ids(stack) : i < nextId
    /\ \A i \in 1..Len(gone) : gone[i] < nextId /\ gone[i] \notin Ids(stack)
    /\ \A i, j \in 1..Len(gone) : gone[i] = gone[j] => i = j

C13_Step ==
    /\ nextId' >= nextId
    /\ \A i \in Ids(stack') \ Ids(stack) : i >= nextId /\ i < nextId'
    /\ Ids(stack) \ Ids(stack') = {gone'[i] : i \in 1..Len(gone')}
    /\ \A i \in 1..Len(stack) : \A j \in 1..Len(stack') :
           stack[i].id = stack'[j].id => (i = j /\ stack[i] = stack'[j])

C13_Lifecycle == []C13_Distinct /\ [][C13_Step]_vars

\* clear_eqs discarded two equalities at once and kept the argument below them
C13_Witness ==
    /\ lastOp = "clear_eqs"
    /\ Len(gone) = 2
    /\ Len(stack) = 1
    /\ Top(stack).tag = "Arg"
    /\ Ids(pre) = Ids(stack) \cup {gone[1], gone[2]}

----------------------------------------------------------------------------
(* C14: of is_arg, is_thunk, is_cont and is_eq exactly one is true of a    *)
(* marker, the one of the marker's variant, whatever the payload; the      *)
(* calls that only evaluate these predicates leave the stack as it is.     *)
Classifiers == {"is_arg", "is_thunk", "is_cont", "is_eq"}

ClassifierTag(fn) ==
    CASE fn = "is_arg" -> "Arg"
      [] fn = "is_thunk" -> "Thunk"
      [] fn = "is_cont" -> "Cont"
      [] fn = "is_eq" -> "Eq"

\* the markers on the stack and every marker one push can make
KnownMarkers == Range(stack) \cup {Top(Replay(<<c>>)) : c \in PushCalls}

ClassifiedByTag(m) ==
    /\ \A fn \in Classifiers : Pred_call([fn |-> fn], m) = (m.tag = ClassifierTag(fn))
    /\ Cardinality({fn \in Classifiers : Pred_call([fn |-> fn], m)}) = 1

PredicateCalls == {"count_args", "count_thunks", "count_conts", "is_top_thunk", "is_top_cont"}

C14_Classification ==
    /\ \A m \in Range(stack) : ClassifiedByTag(m)
    /\ lastOp \in PredicateCalls =>
        /\ stack = pre
        /\ gone = <<>>
        /\ \A m \in KnownMarkers :
            /\ ClassifiedByTag(m)
            /\ \A n \in KnownMarkers :
                   n.tag = m.tag =>
                       \A fn \in Classifiers :
                           Pred_call([fn |-> fn], n) = Pred_call([fn |-> fn], m)

\* a continuation tested on top of a thunk and an equality
C14_Witness ==
    /\ lastOp = "is_top_cont"
    /\ ret = TRUE
    /\ {stack[i].tag : i \in 1..Len(stack)} = {"Eq", "Thunk", "Cont"}
    /\ \E m, n \in KnownMarkers : m.tag = "Cont" /\ n.tag = "Cont" /\ Shape(m) # Shape(n)

----------------------------------------------------------------------------
(* C18: count_args() tells how many pop_arg calls will succeed: from a     *)
(* stack where count_args() = n, of pop_arg calls made one after the other *)
(* the first n return an argument and the (n+1)-th returns None; a         *)
(* successful pop_arg lowers count_args() by one, a push_arg raises it by  *)
(* one.                                                                    *)
C18_CountPredicts ==
    /\ \A a \in 1..(Len(log) + 1) :
           LET n == count_args(StackBefore(a))
           IN  \A j \in 1..(n + 1) :
                   IsRun(a, j, "pop_arg") => ((log[a + j - 1].ret # None) <=> (j <= n))
    /\ \A i \in 1..Len(log) :
        /\ (log[i].op = "pop_arg" /\ log[i].ret # None) =>
               count_args(StackAfter(i)) = count_args(StackBefore(i)) - 1
        /\ log[i].op = "push_arg" =>
               count_args(StackAfter(i)) = count_args(StackBefore(i)) + 1

\* two arguments above a marker of another variant: two pops succeed, the third does not
C18_Witness ==
    /\ Len(log) = 5
    /\ base # <<>>
    /\ Top(base).tag # "Arg"
    /\ IsRun(1, 2, "push_arg")
    /\ count_args(StackBefore(3)) = 2
    /\ IsRun(3, 3, "pop_arg")
    /\ log[4].ret # None
    /\ log[5].ret = None
    /\ StackAfter(5) = base

----------------------------------------------------------------------------
(* C19: a push never fails and only appends: push_arg, push_thunk and      *)
(* push_op_cont make the stack one marker longer, push_eqs of m pairs m    *)
(* markers longer, in the order of the iterator (none for an empty one);   *)
(* the new markers carry what was given, and the old stack is a prefix of  *)
(* the new one.                                                            *)
NewMarkers == SubSeq(stack, Len(pre) + 1, Len(stack))

C19_PushNeverFails ==
    /\ \A a \in ArgInputs : ~push_arg(stack, a[1], a[2], nextId).panic
    /\ \A w \in Cells : ~push_thunk(stack, w, nextId).panic
    /\ \A c \in ContInputs : ~push_op_cont(stack, c[1], c[2], c[3], nextId).panic
    /\ \A it \in EqBatches : ~push_eqs(stack, it, nextId).panic

C19_PushAppends ==
    /\ ~panicked => C19_PushNeverFails
    /\ lastOp \in PushOps =>
        /\ ~panicked
        /\ ret = Unit
        /\ gone = <<>>
        /\ IsPrefix(pre, stack)
    /\ lastOp \in {"push_arg", "push_thunk", "push_op_cont"} =>
        /\ Len(stack) = Len(pre) + 1
        /\ Top(stack).tag = ClassifierTag(CASE lastOp = "push_arg" -> "is_arg"
                                            [] lastOp = "push_thunk" -> "is_thunk"
                                            [] lastOp = "push_op_cont" -> "is_cont")
        /\ Payload(Top(stack)) = lastArgs
    /\ lastOp = "push_eqs" =>
        /\ Len(stack) = Len(pre) + Len(lastArgs)
        /\ \A i \in 1..Len(lastArgs) :
            /\ NewMarkers[i].tag = "Eq"
            /\ Payload(NewMarkers[i]) = lastArgs[i]
        /\ lastArgs = <<>> => stack = pre

\* two different pairs appended, in their order, to a stack that held a marker
C19_Witness ==
    /\ lastOp = "push_eqs"
    /\ Len(lastArgs) = 2
    /\ lastArgs[1] # lastArgs[2]
    /\ pre # <<>>
    /\ Top(pre).tag # "Eq"
    /\ Len(stack) = 3

\* an empty iterator leaves a non-empty stack as it was
C19_WitnessEmpty ==
    /\ lastOp = "push_eqs"
    /\ lastArgs = <<>>
    /\ stack # <<>>

----------------------------------------------------------------------------
(* C15: the Eq markers at the top of the stack and the push_eqs calls they *)
(* come from. A batch is the set of markers one push_eqs call pushed.      *)

\* the call of the log that pushed the marker with this id
BatchOf(id) == CHOOSE i \in 1..Len(log) : id \in Ids(StackAfter(i)) \ Ids(StackBefore(i))

\* the maximal run of Eq markers at the top of s, and the batches found in it
EqRun(s) == SubSeq(s, Len(s) - TopRun(s, {"Eq"}) + 1, Len(s))
RunBatches(s) == {BatchOf(EqRun(s)[i].id) : i \in 1..Len(EqRun(s))}

(* C15 as claimed: the Eq markers at the top of the stack all come from    *)
(* one push_eqs call. Two push_eqs calls in a row refute it.               *)
C15_OneBatch == Cardinality(RunBatches(stack)) <= 1

\* no push_eqs call met an Eq marker at the top of the stack
PushedApart ==
    \A i \in 1..Len(log) :
        (log[i].op = "push_eqs" /\ log[i].args # <<>>) =>
            (StackBefore(i) = <<>> \/ Top(StackBefore(i)).tag # "Eq")

(* C15, amended: the Eq markers at the top of the stack are, whole, what   *)
(* is left of one or several push_eqs batches: no marker of a batch found  *)
(* in the run lies outside it, and clear_eqs discards all of the run, so   *)
(* of every batch all that was left or nothing. The run holds one batch    *)
(* only as long as no push_eqs call was made on a stack with an Eq marker  *)
(* at its top.                                                             *)
C15_WholeBatches ==
    /\ PushedApart => Cardinality(RunBatches(stack)) <= 1
    /\ \A i \in 1..Len(stack) :
           (stack[i].tag = "Eq" /\ BatchOf(stack[i].id) \in RunBatches(stack)) =>
               i > Len(stack) - Len(EqRun(stack))
    /\ \A i \in 1..Len(log) :
           log[i].op = "clear_eqs" =>
               /\ Ids(StackBefore(i)) \ Ids(StackAfter(i)) = Ids(EqRun(StackBefore(i)))
               /\ IsPrefix(StackAfter(i), StackBefore(i))
               /\ \A b \in 1..Len(log) :
                      LET left == {m \in Range(StackBefore(i)) : BatchOf(m.id) = b}
                      IN  left \subseteq Range(StackAfter(i))
                              \/ left \cap Range(StackAfter(i)) = {}

\* clear_eqs discards at once the equalities of two batches pushed on an argument
C15_Witness ==
    /\ Len(log) = 4
    /\ log[1].op = "push_arg"
    /\ log[2].op = "push_eqs"
    /\ Len(log[2].args) = 2
    /\ log[3].op = "push_eqs"
    /\ log[3].args # <<>>
    /\ log[4].op = "clear_eqs"
    /\ Len(StackAfter(4)) = 1

\* two batches kept apart by an argument: the run at the top holds the second only
C15_WitnessApart ==
    /\ Len(log) = 3
    /\ PushedApart
    /\ log[1].op = "push_eqs"
    /\ log[1].args # <<>>
    /\ log[2].op = "push_arg"
    /\ log[3].op = "push_eqs"
    /\ Len(log[3].args) = 2
    /\ RunBatches(stack) = {3}

----------------------------------------------------------------------------
(* C16 as claimed: a conditional pop is one step: when the top marker is   *)
(* not of the variant asked for, the stack is the one before the call at   *)
(* every moment of the call, and no state lies between a look at the top   *)
(* and its removal. pop_arg on a thunk refutes it.                         *)
C16_OneStep ==
    /\ (lastOp \in PopOps /\ pre # <<>> /\ Top(pre).tag # PopTag(lastOp)) => stack = pre
    /\ pc # "pop_eq"

(* C16, amended: a conditional pop returns with the stack one atomic       *)
(* inspect-and-maybe-remove step would leave (Below(pre) and the top       *)
(* marker's payload on a match, pre and None otherwise), and no other call *)
(* runs between its statements. Inside the call pop_arg, pop_thunk and     *)
(* pop_op_cont first take the top marker off, whatever its variant, and on *)
(* a mismatch push the same marker back; pop_eq looks at the top marker    *)
(* first and removes it in a second statement.                             *)
C16_Inside ==
    /\ pc \in {"pop_arg", "pop_thunk", "pop_op_cont"} =>
        /\ lastOp = pc
        /\ stack = IF pre = <<>> THEN <<>> ELSE Below(pre)
        /\ tmp = IF pre = <<>> THEN None ELSE Some(Top(pre))
    /\ pc = "pop_eq" =>
        /\ lastOp = "pop_eq"
        /\ stack = pre
        /\ tmp = Some(pre # <<>> /\ Top(pre).tag = "Eq")

C16_AtReturn ==
    (pc = "idle" /\ lastOp \in PopOps) =>
        /\ ~panicked
        /\ IF pre # <<>> /\ Top(pre).tag = PopTag(lastOp)
               THEN /\ stack = Below(pre)
                    /\ ret = Some(Payload(Top(pre)))
                    /\ gone = <<Top(pre).id>>
           ELSE /\ stack = pre
                /\ ret = None
                /\ gone = <<>>

C16_PopSteps ==
    /\ [](C16_Inside /\ C16_AtReturn)
    /\ [][pc # "idle" => (pre' = pre /\ lastOp' = lastOp /\ nextId' = nextId)]_vars

\* inside pop_arg, the thunk that was on top of an argument is off the stack
C16_Witness ==
    /\ pc = "pop_arg"
    /\ Len(pre) = 2
    /\ pre[1].tag = "Arg"
    /\ tmp = Some(pre[2])
    /\ tmp[1].tag = "Thunk"
    /\ stack = <<pre[1]>>

\* pop_arg has returned None and the thunk is back on top, the same marker
C16_WitnessBack ==
    /\ pc = "idle"
    /\ lastOp = "pop_arg"
    /\ ret = None
    /\ Len(stack) = 2
    /\ Top(stack).tag = "Thunk"
    /\ stack = pre

----------------------------------------------------------------------------
(* C17: clear_eqs always returns. On a stack whose top run of Eq markers   *)
(* has length k its loop calls pop_eq k + 1 times: the first k calls       *)
(* return an equality and make the stack one marker shorter each, the last *)
(* returns None, and clear_eqs returns right after it; with k = 0 the one  *)
(* call returns None and the stack is as before.                           *)
InClearEqs == lastOp = "clear_eqs" /\ pc # "idle"

EqsAtTop == TopRun(pre, {"Eq"})

C17_Loop ==
    lastOp = "clear_eqs" =>
        /\ ~panicked
        /\ Len(gone) <= EqsAtTop
        /\ stack = SubSeq(pre, 1, Len(pre) - Len(gone))
        /\ \A i \in 1..Len(gone) : gone[i] = pre[Len(pre) + 1 - i].id
        /\ pc = "idle" =>
            /\ ret = Unit
            /\ Len(gone) = EqsAtTop
            /\ EqsAtTop = 0 => stack = pre

C17_LoopStep ==
    /\ pc = "clear_eqs.pop_eq" =>
        /\ ret' # None <=> Len(gone) < EqsAtTop
        /\ ret' # None => (Len(stack') = Len(stack) - 1 /\ Len(gone') = Len(gone) + 1)
        /\ ret' = None => (stack' = stack /\ gone' = gone)
    /\ pc = "clear_eqs.test" => (pc' = "idle" <=> ret = None)
    /\ InClearEqs => (lastOp' = "clear_eqs" /\ pre' = pre)

C17_Terminates ==
    /\ []C17_Loop
    /\ [][C17_LoopStep]_vars
    /\ InClearEqs ~> (pc = "idle" /\ lastOp = "clear_eqs")

\* clear_eqs has returned after discarding two equalities above a thunk
C17_Witness ==
    /\ pc = "idle"
    /\ lastOp = "clear_eqs"
    /\ EqsAtTop = 2
    /\ Len(gone) = 2
    /\ Len(stack) = 1
    /\ Top(stack).tag = "Thunk"

\* the loop is about to test the None of its only pop_eq, made on a thunk
C17_WitnessNone ==
    /\ pc = "clear_eqs.test"
    /\ ret = None
    /\ gone = <<>>
    /\ stack = pre
    /\ stack # <<>>
    /\ Top(stack).tag = "Thunk"

====
